---- MODULE Spec2Model ----
(***************************************************************************)
(* Procurement lifecycle and aggregate consistency of the PEO portal:      *)
(* annual budgets, programs of work (POW), biddings, contractors, contract *)
(* history and performance ratings, as implemented by the data-access      *)
(* functions of server/db.ts and exposed by the tRPC routers.              *)
(*                                                                         *)
(* Money is counted in whole centavos (the DECIMAL(18,2) columns hold      *)
(* exactly that); ratings are counted in hundredths (DECIMAL(3,2)).  The   *)
(* amounts of the model stay far below 2^53 centavos, where Number(),      *)
(* the additions and String() of the code are exact on such values.        *)
(***************************************************************************)
EXTENDS Integers, Sequences, FiniteSets, TLC

VARIABLES
    annualBudgets,      \* table annual_budgets:     id -> row
    programOfWorks,     \* table program_of_works:   id -> row
    biddings,           \* table biddings:           id -> row
    contractors,        \* table contractors:        id -> row
    contractHistory,    \* table contract_history:   id -> row
    performanceRatings, \* table performance_ratings: id -> row
    insertId,           \* the AUTO_INCREMENT counter of each table
    last,               \* history: the operation that completed last
    db,                 \* what getDb yields in the running process: Drizzle, or NULL
    inflight,           \* the calls taken step by step: arguments, number read, position
    powCreated,         \* history: number of createPOW calls per fiscal year
    orphaned,           \* history: contractors created over rows that already named their id
    touched             \* history: per contractor, the table whose mutation named it last

vars == <<annualBudgets, programOfWorks, biddings, contractors, contractHistory,
          performanceRatings, insertId, last, db, inflight, powCreated, orphaned,
          touched>>

tables == <<annualBudgets, programOfWorks, biddings, contractors, contractHistory,
            performanceRatings>>

budgetVars == <<annualBudgets>>
biddingVars == <<biddings>>
contractorVars == <<contractors, contractHistory, performanceRatings, orphaned, touched>>

----------------------------------------------------------------------------
(* Bounds of the model *)

MaxBudgets == 1
MaxPOWs == 2
MaxCost == 1
MaxTotal == 2
MaxBiddings == 2
MaxLinkedPOWs == 1
MaxContractors == 1
MaxContracts == 2
MaxRatings == 1
MaxAmount == 1
MaxNumbered == 3
MaxRows == 1
MaxCalls == 3

FiscalYears == {2025, 2026}
Costs == 0..MaxCost
Totals == 1..MaxTotal

----------------------------------------------------------------------------
(* Values of the JavaScript / SQL layer *)

\* SQL NULL and JavaScript undefined of an optional number or decimal.
NULL == -1

\* `x || null` on an optional id: undefined and 0 both become NULL.
OrNull(x) == IF x = NULL \/ x = 0 THEN NULL ELSE x

\* `if (x)` on an optional id.
Truthy(x) == x # NULL /\ x # 0

\* Number(x || 0) on a DECIMAL column.
NumberOr0(x) == IF x = NULL THEN 0 ELSE x

\* Math.max
Max(a, b) == IF a >= b THEN a ELSE b

\* String.prototype.padStart(n, '0')
RECURSIVE padStart(_, _)
padStart(s, n) == IF Len(s) >= n THEN s ELSE padStart("0" \o s, n)

\* A patch is a record of optional values: <<>> is undefined, <<v>> is v.
\* drizzle's .set() drops the keys whose value is undefined and writes the rest.
mapUpdateSet(row, data) ==
    [f \in DOMAIN row |->
        IF f \in DOMAIN data /\ Len(data[f]) > 0 THEN data[f][1] ELSE row[f]]

\* db.update(table).set(data).where(eq(table.id, id))
dbUpdate(table, id, data) ==
    [i \in DOMAIN table |-> IF i = id THEN mapUpdateSet(table[i], data) ELSE table[i]]

\* db.insert(table).values(row), the row taking the table's next AUTO_INCREMENT id
dbInsert(table, id, row) == table @@ (id :> row)

\* db.delete(table).where(eq(table.id, id))
dbDelete(table, id) == [i \in DOMAIN table \ {id} |-> table[i]]

EmptyTable == [i \in {} |-> NULL]

\* The drizzle instance getDb caches in _db.
Drizzle == 1

\* getDb yielding an instance whether or not one was created.
getDbAssumed == Drizzle

\* getDb: the cached instance; NULL when DATABASE_URL is unset or drizzle()
\* threw in this process.
getDb == db

\* `if (!db) throw new Error("Database not available")`: the mutation ends
\* before its first statement.
Throw(op) ==
    /\ last' = [op |-> "throw", of |-> op, message |-> "Database not available"]
    /\ UNCHANGED <<tables, insertId, db, inflight, powCreated, orphaned, touched>>

\* The server process starts over the tables as they are, with or without a
\* database connection.
startServer(instance) ==
    /\ db' = instance
    /\ last' = [op |-> "startServer", id |-> NULL]
    /\ UNCHANGED <<tables, insertId, inflight, powCreated, orphaned, touched>>

----------------------------------------------------------------------------
(* Budget ledger and program of works *)

\* createAnnualBudget: allocatedAmount "0", remainingAmount the total.
createAnnualBudget(fiscalYear, totalBudget) ==
    IF getDb = NULL THEN Throw("createAnnualBudget") ELSE
    /\ annualBudgets' = dbInsert(annualBudgets, insertId.annualBudgets,
            [fiscalYear |-> fiscalYear,
             totalBudget |-> totalBudget,
             allocatedAmount |-> 0,
             remainingAmount |-> totalBudget])
    /\ insertId' = [insertId EXCEPT !.annualBudgets = @ + 1]
    /\ last' = [op |-> "createAnnualBudget", id |-> insertId.annualBudgets]
    /\ UNCHANGED <<db, inflight, programOfWorks, powCreated, biddingVars, contractorVars>>

\* updateAnnualBudget: the fields of the patch are written as given.
updateAnnualBudgetStmt(budgets, id, data) == dbUpdate(budgets, id, data)

\* budgets.update of the router: totalBudget, allocatedAmount and remainingAmount
\* are each optional and passed through.
updateAnnualBudget(id, data) ==
    IF getDb = NULL THEN Throw("updateAnnualBudget") ELSE
    /\ id \in DOMAIN annualBudgets
    /\ annualBudgets' = updateAnnualBudgetStmt(annualBudgets, id, data)
    /\ last' = [op |-> "updateAnnualBudget", id |-> id]
    /\ UNCHANGED <<db, inflight, programOfWorks, insertId, powCreated, biddingVars, contractorVars>>

\* deleteAnnualBudget
deleteAnnualBudget(id) ==
    IF getDb = NULL THEN Throw("deleteAnnualBudget") ELSE
    /\ id \in DOMAIN annualBudgets
    /\ annualBudgets' = dbDelete(annualBudgets, id)
    /\ last' = [op |-> "deleteAnnualBudget", id |-> id]
    /\ UNCHANGED <<db, inflight, programOfWorks, insertId, powCreated, biddingVars, contractorVars>>

\* generatePOWNumber: count the POWs of the fiscal year, format count + 1.
generatePOWNumber(pows, fiscalYear) ==
    LET count == Cardinality({i \in DOMAIN pows : pows[i].fiscalYear = fiscalYear}) + 1
    IN "POW-" \o ToString(fiscalYear) \o "-" \o padStart(ToString(count), 3)

\* createPOW's patch with the allocation overwritten by the new cost.
allocatePatchOverwrite(budget, estimatedCost) ==
    LET newAllocated == estimatedCost
        newRemaining == budget.totalBudget - newAllocated
    IN [allocatedAmount |-> <<newAllocated>>, remainingAmount |-> <<newRemaining>>]

\* The budget patch of createPOW.
allocatePatch(budget, estimatedCost) ==
    LET newAllocated == NumberOr0(budget.allocatedAmount) + estimatedCost
        newRemaining == budget.totalBudget - newAllocated
    IN [allocatedAmount |-> <<newAllocated>>, remainingAmount |-> <<newRemaining>>]

\* deletePOW's patch with the remainder taken from the unclamped difference.
deallocatePatchUnclamped(budget, estimatedCost) ==
    LET difference == NumberOr0(budget.allocatedAmount) - estimatedCost
        newAllocated == Max(0, difference)
        newRemaining == budget.totalBudget - difference
    IN [allocatedAmount |-> <<newAllocated>>, remainingAmount |-> <<newRemaining>>]

\* deletePOW's patch without Math.max.
deallocatePatchNoMax(budget, estimatedCost) ==
    LET newAllocated == NumberOr0(budget.allocatedAmount) - estimatedCost
        newRemaining == budget.totalBudget - newAllocated
    IN [allocatedAmount |-> <<newAllocated>>, remainingAmount |-> <<newRemaining>>]

\* The budget patch of deletePOW.
deallocatePatch(budget, estimatedCost) ==
    LET newAllocated == Max(0, NumberOr0(budget.allocatedAmount) - estimatedCost)
        newRemaining == budget.totalBudget - newAllocated
    IN [allocatedAmount |-> <<newAllocated>>, remainingAmount |-> <<newRemaining>>]

\* `if (budgetId) { budget = getAnnualBudgetById(budgetId); if (budget) ...`
resolves(budgets, budgetId) == Truthy(budgetId) /\ budgetId \in DOMAIN budgets

\* createPOW's budget step creating the budget row a dangling budgetId names.
allocateUpsert(budgets, budgetId, estimatedCost) ==
    IF resolves(budgets, budgetId)
    THEN updateAnnualBudgetStmt(budgets, budgetId,
            allocatePatch(budgets[budgetId], estimatedCost))
    ELSE IF Truthy(budgetId)
    THEN dbInsert(budgets, budgetId,
            [fiscalYear |-> 0, totalBudget |-> 0,
             allocatedAmount |-> estimatedCost, remainingAmount |-> 0 - estimatedCost])
    ELSE budgets

\* createPOW's budget step: allocate when budgetId is given and resolves.
allocate(budgets, budgetId, estimatedCost) ==
    IF resolves(budgets, budgetId)
    THEN updateAnnualBudgetStmt(budgets, budgetId,
            allocatePatch(budgets[budgetId], estimatedCost))
    ELSE budgets

\* deletePOW's budget step: deallocate when the POW's budgetId resolves.
deallocate(budgets, budgetId, estimatedCost) ==
    IF resolves(budgets, budgetId)
    THEN updateAnnualBudgetStmt(budgets, budgetId,
            deallocatePatch(budgets[budgetId], estimatedCost))
    ELSE budgets

\* createPOW after generatePOWNumber: insert with status Draft, then allocate
\* on the budget when budgetId is given and resolves.
insertPOW(powNumber, budgetId, fiscalYear, estimatedCost) ==
    LET id == insertId.programOfWorks
        hasBudget == resolves(annualBudgets, budgetId)
    IN
    /\ programOfWorks' = dbInsert(programOfWorks, id,
            [powNumber |-> powNumber,
             budgetId |-> OrNull(budgetId),
             fiscalYear |-> fiscalYear,
             estimatedCost |-> estimatedCost,
             status |-> "Draft",
             biddingId |-> NULL])
    /\ insertId' = [insertId EXCEPT !.programOfWorks = @ + 1]
    /\ annualBudgets' = allocate(annualBudgets, budgetId, estimatedCost)
    /\ powCreated' = [powCreated EXCEPT ![fiscalYear] = @ + 1]
    /\ last' = [op |-> "createPOW", id |-> id,
                unresolved |-> Truthy(budgetId) /\ ~hasBudget,
                budgetId |-> IF hasBudget THEN budgetId ELSE NULL,
                preAllocated |-> IF hasBudget THEN annualBudgets[budgetId].allocatedAmount ELSE NULL,
                preRemaining |-> IF hasBudget THEN annualBudgets[budgetId].remainingAmount ELSE NULL]
    /\ UNCHANGED <<db, biddingVars, contractorVars>>

\* createPOW in one step.
createPOW(budgetId, fiscalYear, estimatedCost) ==
    IF getDb = NULL THEN Throw("createPOW") ELSE
    /\ insertPOW(generatePOWNumber(programOfWorks, fiscalYear),
                 budgetId, fiscalYear, estimatedCost)
    /\ UNCHANGED inflight

\* createPOW up to the return of generatePOWNumber: the call holds the number
\* computed from the rows counted now.
createPOWGenerate(budgetId, fiscalYear, estimatedCost) ==
    IF getDb = NULL THEN Throw("createPOW") ELSE
    /\ inflight' = Append(inflight,
            [op |-> "createPOW", ref |-> budgetId, fiscalYear |-> fiscalYear,
             estimatedCost |-> estimatedCost,
             number |-> generatePOWNumber(programOfWorks, fiscalYear),
             readAt |-> insertId.programOfWorks, pc |-> "insert", id |-> NULL])
    /\ UNCHANGED <<tables, insertId, last, db, powCreated, orphaned, touched>>

\* The insert numbering the row from the rows present at the insert.
powNumberInsertedRecounted(call, pows) == generatePOWNumber(pows, call.fiscalYear)

\* The powNumber of the insert: the one generatePOWNumber returned to the call.
powNumberInserted(call, pows) == call.number

\* createPOW from the insert on.
createPOWInsert(c) ==
    /\ c \in DOMAIN inflight
    /\ inflight[c].op = "createPOW"
    /\ inflight[c].pc = "insert"
    /\ insertPOW(powNumberInserted(inflight[c], programOfWorks),
                 inflight[c].ref, inflight[c].fiscalYear, inflight[c].estimatedCost)
    /\ inflight' = [inflight EXCEPT ![c].pc = "done", ![c].id = insertId.programOfWorks]

\* The record of a createPOW call that completes: what the one-step
\* createPOW records, with the balances the call read.
createPOWCompleted(call, id, budget) ==
    [op |-> "createPOW", id |-> id,
     unresolved |-> Truthy(call.ref) /\ Len(budget) = 0,
     budgetId |-> IF Len(budget) > 0 THEN call.ref ELSE NULL,
     preAllocated |-> IF Len(budget) > 0 THEN budget[1].allocatedAmount ELSE NULL,
     preRemaining |-> IF Len(budget) > 0 THEN budget[1].remainingAmount ELSE NULL]

\* createPOW, the insert alone: the row is written; the call goes on to the
\* budget when budgetId is given and is complete otherwise.
createPOWInsertRow(c) ==
    LET call == inflight[c]
        id == insertId.programOfWorks
    IN
    /\ c \in DOMAIN inflight
    /\ call.op = "createPOW"
    /\ call.pc = "insert"
    /\ programOfWorks' = dbInsert(programOfWorks, id,
            [powNumber |-> powNumberInserted(call, programOfWorks),
             budgetId |-> OrNull(call.ref),
             fiscalYear |-> call.fiscalYear,
             estimatedCost |-> call.estimatedCost,
             status |-> "Draft",
             biddingId |-> NULL])
    /\ insertId' = [insertId EXCEPT !.programOfWorks = @ + 1]
    /\ powCreated' = [powCreated EXCEPT ![call.fiscalYear] = @ + 1]
    /\ inflight' = [inflight EXCEPT ![c].id = id,
                                    ![c].pc = IF Truthy(call.ref) THEN "read" ELSE "done"]
    /\ last' = IF Truthy(call.ref) THEN last ELSE createPOWCompleted(call, id, <<>>)
    /\ UNCHANGED <<db, annualBudgets, biddingVars, contractorVars>>

\* createPOW, getAnnualBudgetById: the call holds the budget row it read; it
\* is complete when there is none.
createPOWReadBudget(c) ==
    LET call == inflight[c]
        found == call.ref \in DOMAIN annualBudgets
    IN
    /\ c \in DOMAIN inflight
    /\ call.op = "createPOW"
    /\ call.pc = "read"
    /\ inflight' = [inflight EXCEPT ![c] =
            IF found
            THEN [budget |-> annualBudgets[call.ref], pc |-> "write"] @@ @
            ELSE [pc |-> "done"] @@ @]
    /\ last' = IF found THEN last ELSE createPOWCompleted(call, call.id, <<>>)
    /\ UNCHANGED <<tables, insertId, db, powCreated, orphaned, touched>>

\* createPOW, updateAnnualBudget: the balances computed from the row the
\* call read are written.
createPOWWriteBudget(c) ==
    LET call == inflight[c]
    IN
    /\ c \in DOMAIN inflight
    /\ call.op = "createPOW"
    /\ call.pc = "write"
    /\ annualBudgets' = updateAnnualBudgetStmt(annualBudgets, call.ref,
            allocatePatch(call.budget, call.estimatedCost))
    /\ inflight' = [inflight EXCEPT ![c].pc = "done"]
    /\ last' = createPOWCompleted(call, call.id, <<call.budget>>)
    /\ UNCHANGED <<db, programOfWorks, insertId, powCreated, biddingVars, contractorVars>>

\* updatePOW: the fields of the patch are written as given, nothing else.
updatePOWStmt(pows, id, data) == dbUpdate(pows, id, data)

\* updatePOW with the difference of a changed estimatedCost allocated on the
\* POW's budget.
updatePOWBudgetsReallocated(budgets, pow, data) ==
    IF /\ "estimatedCost" \in DOMAIN data /\ Len(data.estimatedCost) > 0
       /\ Truthy(pow.budgetId) /\ pow.budgetId \in DOMAIN budgets
    THEN updateAnnualBudgetStmt(budgets, pow.budgetId,
            allocatePatch(budgets[pow.budgetId], data.estimatedCost[1] - pow.estimatedCost))
    ELSE budgets

\* The budgets after updatePOW: its one statement is on program_of_works.
updatePOWBudgets(budgets, pow, data) == budgets

updatePOW(id, data) ==
    IF getDb = NULL THEN Throw("updatePOW") ELSE
    LET pow == programOfWorks[id]
        created == last.op = "createPOW" /\ last.id = id /\ last.budgetId # NULL
    IN
    /\ id \in DOMAIN programOfWorks
    /\ programOfWorks' = updatePOWStmt(programOfWorks, id, data)
    /\ annualBudgets' = updatePOWBudgets(annualBudgets, pow, data)
    /\ last' = [op |-> "updatePOW", id |-> id,
                preCost |-> IF created THEN pow.estimatedCost ELSE NULL,
                created |-> created,
                preAllocated |-> IF created THEN last.preAllocated ELSE NULL]
    /\ UNCHANGED <<db, inflight, insertId, powCreated, biddingVars, contractorVars>>

\* deletePOW: deallocate the stored estimatedCost from the POW's budget when it
\* resolves (clamped at 0), then remove the row.
deletePOW(id) ==
    IF getDb = NULL THEN Throw("deletePOW") ELSE
    LET pow == programOfWorks[id]
        hasBudget == resolves(annualBudgets, pow.budgetId)
        undone == last.op = "createPOW" /\ last.id = id /\ last.budgetId # NULL
        reestimated == last.op = "updatePOW" /\ last.id = id /\ last.created
    IN
    /\ id \in DOMAIN programOfWorks
    /\ annualBudgets' = deallocate(annualBudgets, pow.budgetId, pow.estimatedCost)
    /\ programOfWorks' = dbDelete(programOfWorks, id)
    /\ last' = [op |-> "deletePOW", id |-> id,
                unresolved |-> Truthy(pow.budgetId) /\ ~hasBudget,
                budgetId |-> IF hasBudget THEN pow.budgetId ELSE NULL,
                roundTrip |-> undone,
                reestimated |-> reestimated,
                createdCost |-> IF reestimated THEN last.preCost ELSE NULL,
                cost |-> IF reestimated THEN pow.estimatedCost ELSE NULL,
                clamped |-> hasBudget /\
                    NumberOr0(annualBudgets[pow.budgetId].allocatedAmount) < pow.estimatedCost,
                preAllocated |-> IF undone \/ reestimated THEN last.preAllocated ELSE NULL,
                preRemaining |-> IF undone THEN last.preRemaining ELSE NULL]
    /\ UNCHANGED <<db, inflight, insertId, powCreated, biddingVars, contractorVars>>

----------------------------------------------------------------------------
(* Bidding lifecycle *)

\* new Date().getFullYear() at the time of the calls
CurrentYear == 2026

\* getBiddingById / getPOWById: the row, when there is one
exists(table, id) == id \in DOMAIN table

\* generateBiddingNumber: count all biddings, format count + 1 under the current year.
generateBiddingNumber(bids) ==
    LET count == Cardinality(DOMAIN bids) + 1
    IN "BID-" \o ToString(CurrentYear) \o "-" \o padStart(ToString(count), 3)

\* createBidding's patch with the link left out.
linkPatchStatusOnly(biddingId) == [status |-> <<"For Bidding">>]

\* createBidding's patch of the POW: status and link.
linkPatch(biddingId) == [status |-> <<"For Bidding">>, biddingId |-> <<biddingId>>]

\* The row createBidding inserts: powId || null, status Pre-Procurement.
biddingRow(biddingNumber, powId) ==
    [biddingNumber |-> biddingNumber,
     powId |-> OrNull(powId),
     status |-> "Pre-Procurement"]

\* createBidding after generateBiddingNumber: insert with status
\* Pre-Procurement, then updatePOW of the referenced POW when powId is given.
insertBidding(biddingNumber, powId) ==
    LET id == insertId.biddings
    IN
    /\ biddings' = dbInsert(biddings, id, biddingRow(biddingNumber, powId))
    /\ insertId' = [insertId EXCEPT !.biddings = @ + 1]
    /\ programOfWorks' =
            IF Truthy(powId)
            THEN updatePOWStmt(programOfWorks, powId, linkPatch(id))
            ELSE programOfWorks
    /\ last' = [op |-> "createBidding", id |-> id, powId |-> OrNull(powId),
                preStatus |-> IF exists(programOfWorks, powId)
                              THEN programOfWorks[powId].status ELSE "none"]
    /\ UNCHANGED <<db, annualBudgets, powCreated, contractorVars>>

\* createBidding in one step.
createBidding(powId) ==
    IF getDb = NULL THEN Throw("createBidding") ELSE
    /\ insertBidding(generateBiddingNumber(biddings), powId)
    /\ UNCHANGED inflight

\* createBidding up to the return of generateBiddingNumber.
createBiddingGenerate(powId) ==
    IF getDb = NULL THEN Throw("createBidding") ELSE
    /\ inflight' = Append(inflight,
            [op |-> "createBidding", ref |-> powId, fiscalYear |-> NULL,
             estimatedCost |-> NULL,
             number |-> generateBiddingNumber(biddings),
             readAt |-> insertId.biddings, pc |-> "insert", id |-> NULL])
    /\ UNCHANGED <<tables, insertId, last, db, powCreated, orphaned, touched>>

\* The biddingNumber of the insert: the one generateBiddingNumber returned.
biddingNumberInserted(call, bids) == call.number

\* createBidding from the insert on.
createBiddingInsert(c) ==
    /\ c \in DOMAIN inflight
    /\ inflight[c].op = "createBidding"
    /\ inflight[c].pc = "insert"
    /\ insertBidding(biddingNumberInserted(inflight[c], biddings), inflight[c].ref)
    /\ inflight' = [inflight EXCEPT ![c].pc = "done", ![c].id = insertId.biddings]

\* updateBidding's test reading a status the patch never carries.
isAwardedNever(data) == "status" \in DOMAIN data /\ data.status = <<"Award">>

\* updateBidding's test for the award side effect.
isAwarded(data) == "status" \in DOMAIN data /\ data.status = <<"Awarded">>

\* updateBidding's patch of the POW.
awardPatch == [status |-> <<"Awarded">>]

\* updateBidding: write the patch; when it sets status Awarded, read the
\* bidding back and updatePOW of its POW.
updateBidding(id, data) ==
    IF getDb = NULL THEN Throw("updateBidding") ELSE
    LET written == dbUpdate(biddings, id, data)
        powId == written[id].powId
    IN
    /\ exists(biddings, id)
    /\ biddings' = written
    /\ programOfWorks' =
            IF isAwarded(data) /\ Truthy(powId)
            THEN updatePOWStmt(programOfWorks, powId, awardPatch)
            ELSE programOfWorks
    /\ last' = [op |-> "updateBidding", id |-> id, powId |-> powId,
                data |-> data]
    /\ UNCHANGED <<db, inflight, annualBudgets, insertId, powCreated, contractorVars>>

\* deleteBidding's patch of the POW: biddingId is passed as undefined.
unlinkPatch == [status |-> <<"Approved">>, biddingId |-> <<>>]

\* deleteBidding: updatePOW of the bidding's POW, then remove the row.
deleteBidding(id) ==
    IF getDb = NULL THEN Throw("deleteBidding") ELSE
    LET powId == biddings[id].powId
    IN
    /\ exists(biddings, id)
    /\ programOfWorks' =
            IF Truthy(powId)
            THEN updatePOWStmt(programOfWorks, powId, unlinkPatch)
            ELSE programOfWorks
    /\ biddings' = dbDelete(biddings, id)
    /\ last' = [op |-> "deleteBidding", id |-> id, powId |-> powId]
    /\ UNCHANGED <<db, inflight, annualBudgets, insertId, powCreated, contractorVars>>

\* What a call that stops between two statements leaves of a table, with
\* every statement run in one transaction that the failure rolls back.
committedRolledBack(before, after) == before

\* What a call that stops between two statements leaves of a table: each
\* statement is sent on its own through the connection pool and no function
\* opens a transaction, so the statements that ran stay.
committed(before, after) == after

\* createBidding stopped (error of the second statement, or end of the
\* process) after the insert and before updatePOW.
createBiddingInterrupted(powId) ==
    IF getDb = NULL THEN Throw("createBidding") ELSE
    LET id == insertId.biddings
    IN
    /\ Truthy(powId)
    /\ biddings' = committed(biddings,
            dbInsert(biddings, id, biddingRow(generateBiddingNumber(biddings), powId)))
    /\ insertId' = [insertId EXCEPT !.biddings = @ + 1]
    /\ last' = [op |-> "interrupted", of |-> "createBidding", id |-> id, powId |-> powId,
                preStatus |-> "none"]
    /\ UNCHANGED <<db, inflight, annualBudgets, programOfWorks, powCreated, contractorVars>>

\* updateBidding to status Awarded stopped after the update of the bidding
\* and before updatePOW.
updateBiddingInterrupted(id, data) ==
    IF getDb = NULL THEN Throw("updateBidding") ELSE
    LET written == dbUpdate(biddings, id, data)
        powId == written[id].powId
    IN
    /\ exists(biddings, id)
    /\ isAwarded(data)
    /\ Truthy(powId)
    /\ biddings' = committed(biddings, written)
    /\ last' = [op |-> "interrupted", of |-> "updateBidding", id |-> id, powId |-> powId,
                preStatus |-> IF exists(programOfWorks, powId)
                              THEN programOfWorks[powId].status ELSE "none"]
    /\ UNCHANGED <<db, inflight, annualBudgets, programOfWorks, insertId, powCreated,
                   contractorVars>>

\* deleteBidding stopped after updatePOW and before the delete of the bidding.
deleteBiddingInterrupted(id) ==
    IF getDb = NULL THEN Throw("deleteBidding") ELSE
    LET powId == biddings[id].powId
    IN
    /\ exists(biddings, id)
    /\ Truthy(powId)
    /\ programOfWorks' = committed(programOfWorks,
            updatePOWStmt(programOfWorks, powId, unlinkPatch))
    /\ last' = [op |-> "interrupted", of |-> "deleteBidding", id |-> id, powId |-> powId,
                preStatus |-> "none"]
    /\ UNCHANGED <<db, inflight, annualBudgets, biddings, insertId, powCreated,
                   contractorVars>>

----------------------------------------------------------------------------
(* Contractor aggregate engine *)

\* The rows of a table that belong to a contractor.
rowsOf(table, contractorId) ==
    {i \in DOMAIN table : table[i].contractorId = contractorId}

\* SQL SUM(column) over a set of rows, NULLs skipped (0 here when none is left).
RECURSIVE sqlSum(_, _, _)
sqlSum(table, rows, column) ==
    IF rows = {} THEN 0
    ELSE LET i == CHOOSE r \in rows : TRUE
             v == table[i][column]
         IN (IF v = NULL THEN 0 ELSE v) + sqlSum(table, rows \ {i}, column)

\* Division rounded half away from zero, for non-negative a and positive b.
roundDiv(a, b) == (2 * a + b) \div (2 * b)

\* AVG(column) with no COALESCE: NULL when no row carries a value.
sqlAvgNull(table, rows, column) ==
    LET given == {i \in rows : table[i][column] # NULL}
    IN IF given = {} THEN NULL
       ELSE roundDiv(roundDiv(sqlSum(table, given, column) * 10000,
                              Cardinality(given)), 10000)

\* COALESCE(AVG(column), 0) of a DECIMAL(3,2) column, written through
\* String() into a DECIMAL(3,2) column: the average over the non-NULL values,
\* carried by MySQL to 6 decimals, then rounded to 2 by the store.
sqlAvg(table, rows, column) ==
    LET given == {i \in rows : table[i][column] # NULL}
    IN IF given = {} THEN 0
       ELSE roundDiv(roundDiv(sqlSum(table, given, column) * 10000,
                              Cardinality(given)), 10000)

\* SUM(CASE WHEN status = st THEN 1 ELSE 0 END), read through Number().
countStatus(table, rows, st) == Cardinality({i \in rows : table[i].status = st})

\* The SELECT of updateContractorStats with COUNT(contractAmount) for count(*).
selectContractorStatsCountAmounts(history, contractorId) ==
    LET rows == rowsOf(history, contractorId)
    IN [totalContracts |-> <<Cardinality({i \in rows : history[i].contractAmount # NULL})>>,
        totalContractValue |-> <<sqlSum(history, rows, "contractAmount")>>,
        completedContracts |-> <<countStatus(history, rows, "Completed")>>,
        ongoingContracts |-> <<countStatus(history, rows, "Ongoing")>>,
        overallRating |-> <<sqlAvg(history, rows, "performanceRating")>>]

\* The SELECT of updateContractorStats with every unfinished contract counted as ongoing.
selectContractorStatsNotCompleted(history, contractorId) ==
    LET rows == rowsOf(history, contractorId)
    IN [totalContracts |-> <<Cardinality(rows)>>,
        totalContractValue |-> <<sqlSum(history, rows, "contractAmount")>>,
        completedContracts |-> <<countStatus(history, rows, "Completed")>>,
        ongoingContracts |-> <<Cardinality(rows) - countStatus(history, rows, "Completed")>>,
        overallRating |-> <<sqlAvg(history, rows, "performanceRating")>>]

\* The SELECT of updateContractorStats, as the patch its UPDATE writes.
selectContractorStats(history, contractorId) ==
    LET rows == rowsOf(history, contractorId)
    IN [totalContracts |-> <<Cardinality(rows)>>,
        totalContractValue |-> <<sqlSum(history, rows, "contractAmount")>>,
        completedContracts |-> <<countStatus(history, rows, "Completed")>>,
        ongoingContracts |-> <<countStatus(history, rows, "Ongoing")>>,
        overallRating |-> <<sqlAvg(history, rows, "performanceRating")>>]

\* updateContractorStats: recompute from the contractor's history rows and
\* write the five aggregates on the contractor.
updateContractorStats(conts, history, contractorId) ==
    dbUpdate(conts, contractorId, selectContractorStats(history, contractorId))

\* createContractor: the aggregates take the defaults of the schema.
createContractor ==
    IF getDb = NULL THEN Throw("createContractor") ELSE
    LET id == insertId.contractors
    IN
    /\ contractors' = dbInsert(contractors, id,
            [status |-> "Active",
             totalContracts |-> 0,
             totalContractValue |-> 0,
             completedContracts |-> 0,
             ongoingContracts |-> 0,
             overallRating |-> NULL])
    /\ insertId' = [insertId EXCEPT !.contractors = @ + 1]
    /\ orphaned' = IF rowsOf(contractHistory, id) # {} THEN orphaned \cup {id} ELSE orphaned
    /\ last' = [op |-> "createContractor", id |-> id]
    /\ UNCHANGED <<db, inflight, annualBudgets, programOfWorks, powCreated, biddingVars,
                   contractHistory, performanceRatings, touched>>

\* z.object(shape).parse(input): the keys outside the shape are kept.
zObjectPassthrough(shape, input) == input

\* z.object(shape).parse(input): the keys outside the shape are stripped.
zObject(shape, input) == [f \in DOMAIN input \cap shape |-> input[f]]

\* The keys of the input of contractors.update that reach updateContractor.
ContractorUpdateShape ==
    {"name", "tradeName", "tin", "philgepsNumber", "pcabLicense", "pcabCategory",
     "pcabClassification", "licenseExpiryDate", "address", "city", "province",
     "contactPerson", "email", "phone", "mobile", "status", "blacklistReason",
     "blacklistDate", "remarks"}

\* contractors.update and updateContractor: the parsed input is written as given.
updateContractor(id, input) ==
    IF getDb = NULL THEN Throw("updateContractor") ELSE
    LET data == zObject(ContractorUpdateShape, input)
    IN
    /\ exists(contractors, id)
    /\ contractors' = dbUpdate(contractors, id, data)
    /\ last' = [op |-> "updateContractor", id |-> id, input |-> input]
    /\ UNCHANGED <<db, inflight, annualBudgets, programOfWorks, insertId, powCreated, biddingVars,
                   contractHistory, performanceRatings, orphaned, touched>>

\* deleteContractor: the row is removed, its history and ratings stay.
deleteContractor(id) ==
    IF getDb = NULL THEN Throw("deleteContractor") ELSE
    /\ exists(contractors, id)
    /\ contractors' = dbDelete(contractors, id)
    /\ orphaned' = orphaned \ {id}
    /\ last' = [op |-> "deleteContractor", id |-> id]
    /\ UNCHANGED <<db, inflight, annualBudgets, programOfWorks, insertId, powCreated, biddingVars,
                   contractHistory, performanceRatings, touched>>

\* The row createContractHistory inserts.
contractRow(contractorId, contractAmount, status) ==
    [contractorId |-> contractorId,
     contractAmount |-> contractAmount,
     status |-> IF status = "" THEN "Ongoing" ELSE status,
     performanceRating |-> NULL]

\* createContractHistory: insert (contractAmount || null, status || "Ongoing"),
\* then updateContractorStats.
createContractHistory(contractorId, contractAmount, status) ==
    IF getDb = NULL THEN Throw("createContractHistory") ELSE
    LET id == insertId.contractHistory
        inserted == dbInsert(contractHistory, id,
                             contractRow(contractorId, contractAmount, status))
    IN
    /\ contractHistory' = inserted
    /\ insertId' = [insertId EXCEPT !.contractHistory = @ + 1]
    /\ contractors' = updateContractorStats(contractors, inserted, contractorId)
    /\ orphaned' = orphaned \ {contractorId}
    /\ touched' = (contractorId :> "history") @@ touched
    /\ last' = [op |-> "createContractHistory", contractorId |-> contractorId, id |-> id,
                pre |-> IF exists(contractors, contractorId)
                        THEN <<contractors[contractorId]>> ELSE <<>>]
    /\ UNCHANGED <<db, inflight, annualBudgets, programOfWorks, powCreated, biddingVars, performanceRatings>>

\* updateContractHistory: write the patch, read the row back, updateContractorStats.
updateContractHistory(id, data) ==
    IF getDb = NULL THEN Throw("updateContractHistory") ELSE
    LET written == dbUpdate(contractHistory, id, data)
        contractorId == written[id].contractorId
    IN
    /\ exists(contractHistory, id)
    /\ contractHistory' = written
    /\ contractors' = updateContractorStats(contractors, written, contractorId)
    /\ orphaned' = orphaned \ {contractorId}
    /\ touched' = (contractorId :> "history") @@ touched
    /\ last' = [op |-> "updateContractHistory", contractorId |-> contractorId]
    /\ UNCHANGED <<db, inflight, annualBudgets, programOfWorks, insertId, powCreated, biddingVars,
                   performanceRatings>>

\* deleteContractHistory: read the row, remove it, updateContractorStats.
deleteContractHistory(id) ==
    IF getDb = NULL THEN Throw("deleteContractHistory") ELSE
    LET contractorId == contractHistory[id].contractorId
        removed == dbDelete(contractHistory, id)
    IN
    /\ exists(contractHistory, id)
    /\ contractHistory' = removed
    /\ contractors' = updateContractorStats(contractors, removed, contractorId)
    /\ orphaned' = orphaned \ {contractorId}
    /\ touched' = (contractorId :> "history") @@ touched
    /\ last' = [op |-> "deleteContractHistory", contractorId |-> contractorId,
                pre |-> IF last.op = "createContractHistory" /\ last.id = id
                        THEN last.pre ELSE <<>>]
    /\ UNCHANGED <<db, inflight, annualBudgets, programOfWorks, insertId, powCreated, biddingVars,
                   performanceRatings>>

\* A contract-history call taken statement by statement: the operation, the
\* row, the contractor to recompute (once known) and the position.
historyCall(op, contractorId, id, pc) ==
    [op |-> op, ref |-> contractorId, fiscalYear |-> NULL, estimatedCost |-> NULL,
     number |-> "", readAt |-> NULL, pc |-> pc, id |-> id]

\* The record of a contract-history call that completes.
historyCallCompleted(call, contractorId) ==
    [op |-> call.op, contractorId |-> contractorId, id |-> call.id, pre |-> <<>>]

\* createContractHistory, the insert alone.
createContractHistoryInsert(contractorId, contractAmount, status) ==
    IF getDb = NULL THEN Throw("createContractHistory") ELSE
    LET id == insertId.contractHistory
    IN
    /\ contractHistory' = dbInsert(contractHistory, id,
                                   contractRow(contractorId, contractAmount, status))
    /\ insertId' = [insertId EXCEPT !.contractHistory = @ + 1]
    /\ inflight' = Append(inflight,
            historyCall("createContractHistory", contractorId, id, "select"))
    /\ UNCHANGED <<db, last, annualBudgets, programOfWorks, powCreated, biddingVars,
                   contractors, performanceRatings, orphaned, touched>>

\* updateContractHistory, the update of the row alone.
updateContractHistoryWrite(id, data) ==
    IF getDb = NULL THEN Throw("updateContractHistory") ELSE
    /\ exists(contractHistory, id)
    /\ contractHistory' = dbUpdate(contractHistory, id, data)
    /\ inflight' = Append(inflight, historyCall("updateContractHistory", NULL, id, "reread"))
    /\ UNCHANGED <<db, last, annualBudgets, programOfWorks, insertId, powCreated, biddingVars,
                   contractors, performanceRatings, orphaned, touched>>

\* updateContractHistory, getContractHistoryById: the call goes on to the
\* recomputation when the row is still there and is complete otherwise.
updateContractHistoryReread(c) ==
    LET call == inflight[c]
        found == exists(contractHistory, call.id)
    IN
    /\ c \in DOMAIN inflight
    /\ call.op = "updateContractHistory"
    /\ call.pc = "reread"
    /\ inflight' = [inflight EXCEPT ![c] =
            IF found
            THEN [ref |-> contractHistory[call.id].contractorId, pc |-> "select"] @@ @
            ELSE [pc |-> "done"] @@ @]
    /\ last' = IF found THEN last ELSE historyCallCompleted(call, NULL)
    /\ UNCHANGED <<tables, insertId, db, powCreated, orphaned, touched>>

\* deleteContractHistory, getContractHistoryById.
deleteContractHistoryRead(id) ==
    IF getDb = NULL THEN Throw("deleteContractHistory") ELSE
    /\ exists(contractHistory, id)
    /\ inflight' = Append(inflight,
            historyCall("deleteContractHistory", contractHistory[id].contractorId, id, "delete"))
    /\ UNCHANGED <<tables, insertId, last, db, powCreated, orphaned, touched>>

\* deleteContractHistory, the delete of the row (of no row when another
\* call removed it since the read).
deleteContractHistoryDelete(c) ==
    LET call == inflight[c]
    IN
    /\ c \in DOMAIN inflight
    /\ call.op = "deleteContractHistory"
    /\ call.pc = "delete"
    /\ contractHistory' = IF exists(contractHistory, call.id)
                          THEN dbDelete(contractHistory, call.id) ELSE contractHistory
    /\ inflight' = [inflight EXCEPT ![c].pc = "select"]
    /\ UNCHANGED <<db, last, annualBudgets, programOfWorks, insertId, powCreated, biddingVars,
                   contractors, performanceRatings, orphaned, touched>>

\* updateContractorStats, the SELECT: the call holds the aggregates computed
\* from the rows present now.
updateContractorStatsSelect(c) ==
    LET call == inflight[c]
    IN
    /\ c \in DOMAIN inflight
    /\ call.pc = "select"
    /\ inflight' = [inflight EXCEPT ![c] =
            [stats |-> selectContractorStats(contractHistory, call.ref), pc |-> "update"] @@ @]
    /\ UNCHANGED <<tables, insertId, last, db, powCreated, orphaned, touched>>

\* updateContractorStats, the UPDATE: the aggregates the call holds are
\* written on the contractor.
updateContractorStatsUpdate(c) ==
    LET call == inflight[c]
    IN
    /\ c \in DOMAIN inflight
    /\ call.pc = "update"
    /\ contractors' = dbUpdate(contractors, call.ref, call.stats)
    /\ inflight' = [inflight EXCEPT ![c].pc = "done"]
    /\ orphaned' = orphaned \ {call.ref}
    /\ touched' = (call.ref :> "history") @@ touched
    /\ last' = historyCallCompleted(call, call.ref)
    /\ UNCHANGED <<db, annualBudgets, programOfWorks, insertId, powCreated, biddingVars,
                   contractHistory, performanceRatings>>

----------------------------------------------------------------------------
(* Performance ratings *)

\* The five sub-scores of a rating row or of the caller's data, in order.
subScores(r) ==
    <<r.qualityRating, r.timelinessRating, r.safetyRating,
      r.resourceRating, r.communicationRating>>

\* (sum / n).toFixed(2), in hundredths.  The sub-scores of the model are
\* multiples of 0.5, so a mean that falls halfway between two hundredths is
\* an exact binary fraction and toFixed rounds it up.
toFixed2(sum, n) == roundDiv(sum, n)

\* The derivation with the zero sub-scores kept in the mean.
deriveOverallRatingKeepZeros(scores) ==
    LET ratings == {k \in DOMAIN scores : NumberOr0(scores[k]) >= 0 /\ scores[k] # NULL}
        sum == sqlSum([k \in ratings |-> [v |-> scores[k]]], ratings, "v")
    IN IF ratings # {} THEN toFixed2(sum, Cardinality(ratings)) ELSE 0

\* The overall rating: parseFloat(score || "0") of each sub-score, those > 0
\* kept, their mean through toFixed(2); "0" when none is left.
deriveOverallRating(scores) ==
    LET ratings == {k \in DOMAIN scores : NumberOr0(scores[k]) > 0}
        sum == sqlSum([k \in ratings |-> [v |-> scores[k]]], ratings, "v")
    IN IF ratings # {} THEN toFixed2(sum, Cardinality(ratings)) ELSE 0

\* The recomputation averaging the ratings' qualityRating column instead.
updateContractorOverallRatingOfQuality(conts, ratings, contractorId) ==
    dbUpdate(conts, contractorId,
        [overallRating |-> <<sqlAvg(ratings, rowsOf(ratings, contractorId), "qualityRating")>>])

\* updateContractorOverallRating: the average of the contractor's ratings'
\* overallRating, written on the contractor.
updateContractorOverallRating(conts, ratings, contractorId) ==
    dbUpdate(conts, contractorId,
        [overallRating |-> <<sqlAvg(ratings, rowsOf(ratings, contractorId), "overallRating")>>])

\* createPerformanceRating: derive the overall rating, insert, recompute the
\* contractor's rating, and write the rating on the linked history row.
createPerformanceRating(contractorId, contractHistoryId, data) ==
    IF getDb = NULL THEN Throw("createPerformanceRating") ELSE
    LET id == insertId.performanceRatings
        overallRating == deriveOverallRating(subScores(data))
        inserted == dbInsert(performanceRatings, id,
            [contractorId |-> contractorId,
             contractHistoryId |-> OrNull(contractHistoryId),
             qualityRating |-> data.qualityRating,
             timelinessRating |-> data.timelinessRating,
             safetyRating |-> data.safetyRating,
             resourceRating |-> data.resourceRating,
             communicationRating |-> data.communicationRating,
             overallRating |-> overallRating])
    IN
    /\ performanceRatings' = inserted
    /\ insertId' = [insertId EXCEPT !.performanceRatings = @ + 1]
    /\ contractors' = updateContractorOverallRating(contractors, inserted, contractorId)
    /\ contractHistory' =
            IF Truthy(contractHistoryId)
            THEN dbUpdate(contractHistory, contractHistoryId,
                          [performanceRating |-> <<overallRating>>])
            ELSE contractHistory
    /\ touched' = (contractorId :> "ratings") @@ touched
    /\ last' = [op |-> "createPerformanceRating", id |-> id, contractorId |-> contractorId]
    /\ UNCHANGED <<db, inflight, annualBudgets, programOfWorks, powCreated, biddingVars, orphaned>>

\* The sub-score columns, in the order of the code.
scoreFields ==
    <<"qualityRating", "timelinessRating", "safetyRating",
      "resourceRating", "communicationRating">>

\* The merge with the stored sub-scores left out.
mergedScoresPatchOnly(rating, data) ==
    [k \in DOMAIN scoreFields |->
        LET f == scoreFields[k]
        IN IF f \in DOMAIN data /\ Len(data[f]) > 0 THEN data[f][1] ELSE NULL]

\* data.score || String(rating.score) || "0" for each sub-score: the patch's
\* value when it gives one, the stored one otherwise (String(null) parses to NaN,
\* which the filter drops as it drops 0).
mergedScores(rating, data) ==
    [k \in DOMAIN scoreFields |->
        LET f == scoreFields[k]
        IN IF f \in DOMAIN data /\ Len(data[f]) > 0 THEN data[f][1] ELSE rating[f]]

\* updatePerformanceRating: read the row, derive the overall rating from the
\* patch over the stored sub-scores, write patch and overall rating, recompute
\* the contractor's rating.
updatePerformanceRating(id, data) ==
    IF getDb = NULL THEN Throw("updatePerformanceRating") ELSE
    LET rating == performanceRatings[id]
        overallRating == deriveOverallRating(mergedScores(rating, data))
        written == dbUpdate(performanceRatings, id,
                            [overallRating |-> <<overallRating>>] @@ data)
    IN
    /\ exists(performanceRatings, id)
    /\ performanceRatings' = written
    /\ contractors' = updateContractorOverallRating(contractors, written, rating.contractorId)
    /\ touched' = (rating.contractorId :> "ratings") @@ touched
    /\ last' = [op |-> "updatePerformanceRating", id |-> id,
                contractorId |-> rating.contractorId, data |-> data, stored |-> rating]
    /\ UNCHANGED <<db, inflight, annualBudgets, programOfWorks, insertId, powCreated, biddingVars,
                   contractHistory, orphaned>>

\* deletePerformanceRating: read the row, remove it, recompute the contractor's rating.
deletePerformanceRating(id) ==
    IF getDb = NULL THEN Throw("deletePerformanceRating") ELSE
    LET rating == performanceRatings[id]
        removed == dbDelete(performanceRatings, id)
    IN
    /\ exists(performanceRatings, id)
    /\ performanceRatings' = removed
    /\ contractors' = updateContractorOverallRating(contractors, removed, rating.contractorId)
    /\ touched' = (rating.contractorId :> "ratings") @@ touched
    /\ last' = [op |-> "deletePerformanceRating", id |-> id,
                contractorId |-> rating.contractorId]
    /\ UNCHANGED <<db, inflight, annualBudgets, programOfWorks, insertId, powCreated, biddingVars,
                   contractHistory, orphaned>>

----------------------------------------------------------------------------
(* Specifications *)

Init ==
    /\ annualBudgets = EmptyTable
    /\ programOfWorks = EmptyTable
    /\ biddings = EmptyTable
    /\ contractors = EmptyTable
    /\ contractHistory = EmptyTable
    /\ performanceRatings = EmptyTable
    /\ insertId = [annualBudgets |-> 1, programOfWorks |-> 1, biddings |-> 1,
                   contractors |-> 1, contractHistory |-> 1, performanceRatings |-> 1]
    /\ last = [op |-> "none", id |-> NULL]
    /\ db = Drizzle
    /\ inflight = <<>>
    /\ powCreated = [y \in FiscalYears |-> 0]
    /\ orphaned = {}
    /\ touched = <<>>

\* Optional budget references a caller can pass: none, or any id.
BudgetRefs == {NULL} \cup 1..MaxBudgets

\* Patches of pow.update that change the estimated cost.
CostPatches == {[estimatedCost |-> <<c>>] : c \in Costs}

\* Patches of budgets.update: a revised total, or the balances reset by hand.
BudgetPatches ==
    {[totalBudget |-> <<t>>] : t \in Totals}
    \cup {[allocatedAmount |-> <<0>>, remainingAmount |-> <<t>>] : t \in Totals}

\* The ledger reads no fiscal year: its POWs are all of one year.
LedgerYear == CHOOSE y \in FiscalYears : \A z \in FiscalYears : y >= z

\* The ledger: budgets are created, POWs are created, re-estimated and deleted.
NextLedger ==
    \/ \E t \in Totals :
          insertId.annualBudgets <= MaxBudgets /\ createAnnualBudget(LedgerYear, t)
    \/ \E b \in 1..MaxBudgets, c \in Costs :
          insertId.programOfWorks <= MaxPOWs /\ createPOW(b, LedgerYear, c)
    \/ \E id \in 1..MaxPOWs, data \in CostPatches : updatePOW(id, data)
    \/ \E id \in 1..MaxPOWs : deletePOW(id)

SpecLedger == Init /\ [][NextLedger]_vars

\* The budget interface: budgets are created and patched by budgets.update
\* while POWs are created and deleted on them.
NextBudgets ==
    \/ \E t \in Totals :
          insertId.annualBudgets <= MaxBudgets /\ createAnnualBudget(LedgerYear, t)
    \/ \E id \in 1..MaxBudgets, data \in BudgetPatches : updateAnnualBudget(id, data)
    \/ \E b \in 1..MaxBudgets, c \in Costs :
          insertId.programOfWorks <= MaxPOWs /\ createPOW(b, LedgerYear, c)
    \/ \E id \in 1..MaxPOWs : deletePOW(id)

SpecBudgets == Init /\ [][NextBudgets]_vars

\* POW numbering: POWs of several fiscal years are created and deleted.
NextNumbering ==
    \/ \E y \in FiscalYears :
          insertId.programOfWorks <= MaxNumbered /\ createPOW(NULL, y, 0)
    \/ \E id \in 1..MaxNumbered : deletePOW(id)

SpecNumbering == Init /\ [][NextNumbering]_vars

\* Optional POW references a caller can pass: none, or any id.
POWRefs == {NULL} \cup 1..MaxLinkedPOWs

\* Patches of pow.update that move the status by hand.
POWStatusPatches == {[status |-> <<st>>] : st \in {"Approved", "Cancelled"}}

\* Patches of biddings.update that move the status.
BiddingPatches == {[status |-> <<st>>] : st \in {"Advertisement", "Awarded"}}

\* The bidding lifecycle over POWs that are created and moved by hand.
NextBidding ==
    \/ insertId.programOfWorks <= MaxLinkedPOWs /\ createPOW(NULL, LedgerYear, 0)
    \/ \E id \in 1..MaxLinkedPOWs, data \in POWStatusPatches : updatePOW(id, data)
    \/ \E p \in POWRefs : insertId.biddings <= MaxBiddings /\ createBidding(p)
    \/ \E id \in 1..MaxBiddings, data \in BiddingPatches : updateBidding(id, data)
    \/ \E id \in 1..MaxBiddings : deleteBidding(id)

SpecBidding == Init /\ [][NextBidding]_vars

\* Contractor references a caller can pass (required, not checked to exist).
ContractorRefs == 1..MaxContractors

\* Optional contract amounts, in centavos.
Amounts == {NULL} \cup 1..MaxAmount

\* Optional contract status: "" stands for none given.
ContractStatuses == {"", "Completed", "Terminated"}

\* Patches of contractHistory.update: an amount or a status.
HistoryPatches ==
    {[contractAmount |-> <<a>>] : a \in 0..MaxAmount}
    \cup {[status |-> <<st>>] : st \in {"Ongoing", "Completed"}}

\* The aggregate engine under contract-history mutations.
NextHistory ==
    \/ insertId.contractors <= MaxContractors /\ createContractor
    \/ \E x \in ContractorRefs, a \in Amounts, st \in ContractStatuses :
          insertId.contractHistory <= MaxContracts /\ createContractHistory(x, a, st)
    \/ \E id \in 1..MaxContracts, data \in HistoryPatches : updateContractHistory(id, data)
    \/ \E id \in 1..MaxContracts : deleteContractHistory(id)

SpecHistory == Init /\ [][NextHistory]_vars

\* Sub-scores a caller can pass, in hundredths; NULL stands for none given.
RatingData ==
    [qualityRating : {NULL, 0, 500},
     timelinessRating : {NULL, 400},
     safetyRating : {NULL, 400, 450},
     resourceRating : {NULL, 400, 500},
     communicationRating : {NULL, 0, 300}]

\* Ratings are created for contractors.
NextRating ==
    \/ insertId.contractors <= MaxContractors /\ createContractor
    \/ \E x \in ContractorRefs, data \in RatingData :
          insertId.performanceRatings <= MaxRatings /\ createPerformanceRating(x, NULL, data)

SpecRating == Init /\ [][NextRating]_vars

\* Optional contract-history references a caller can pass: none, or any id.
HistoryRefs == {NULL} \cup 1..MaxContracts

\* A short list of rating inputs: quality given or not, timeliness 4, communication 0.
RatingDataBrief ==
    [qualityRating : {NULL, 500},
     timelinessRating : {400},
     safetyRating : {NULL},
     resourceRating : {NULL},
     communicationRating : {0}]

\* Patches of performanceRatings.update: one sub-score re-scored (to a value or
\* to 0), two at once, or none (the patch then carries other fields only).
RatingPatches ==
    {[qualityRating |-> <<v>>] : v \in {0, 300}}
    \cup {[safetyRating |-> <<450>>, communicationRating |-> <<500>>],
          [qualityRating |-> <<>>]}

\* The rows inserted so far, over all tables.
RowsInserted ==
    insertId.annualBudgets + insertId.programOfWorks + insertId.biddings
    + insertId.contractors + insertId.contractHistory + insertId.performanceRatings - 6

\* Every mutation of the five entities, called while the server runs with or
\* without a database connection.
NextUnavailable ==
    \/ \E instance \in {NULL, Drizzle} : startServer(instance)
    \/ \E t \in Totals : RowsInserted < MaxRows /\ createAnnualBudget(LedgerYear, t)
    \/ \E id \in 1..MaxRows, data \in BudgetPatches : updateAnnualBudget(id, data)
    \/ \E id \in 1..MaxRows : deleteAnnualBudget(id)
    \/ \E b \in BudgetRefs, c \in Costs :
          RowsInserted < MaxRows /\ createPOW(b, LedgerYear, c)
    \/ \E id \in 1..MaxRows, data \in CostPatches : updatePOW(id, data)
    \/ \E id \in 1..MaxRows : deletePOW(id)
    \/ \E p \in POWRefs : RowsInserted < MaxRows /\ createBidding(p)
    \/ \E id \in 1..MaxRows, data \in BiddingPatches : updateBidding(id, data)
    \/ \E id \in 1..MaxRows : deleteBidding(id)
    \/ \E x \in ContractorRefs, a \in Amounts, st \in ContractStatuses :
          RowsInserted < MaxRows /\ createContractHistory(x, a, st)
    \/ \E id \in 1..MaxRows, data \in HistoryPatches : updateContractHistory(id, data)
    \/ \E id \in 1..MaxRows : deleteContractHistory(id)
    \/ \E x \in ContractorRefs, h \in HistoryRefs, data \in RatingDataBrief :
          RowsInserted < MaxRows /\ createPerformanceRating(x, h, data)
    \/ \E id \in 1..MaxRows, data \in RatingPatches : updatePerformanceRating(id, data)
    \/ \E id \in 1..MaxRows : deletePerformanceRating(id)

SpecUnavailable == Init /\ [][NextUnavailable]_vars

\* Inputs of contractors.update: a status, or a status sent together with
\* values for aggregate columns.
ContractorInputs ==
    {[status |-> <<"Suspended">>],
     [status |-> <<"Suspended">>, totalContracts |-> <<9>>, overallRating |-> <<500>>]}

\* The budget, POW and bidding rows inserted so far.
ProcurementRows ==
    insertId.annualBudgets + insertId.programOfWorks + insertId.biddings - 3

\* Contractors are created and patched while their history and ratings grow and the procurement side goes through its operations.
NextFrame ==
    \/ insertId.contractors <= MaxContractors /\ createContractor
    \/ \E id \in ContractorRefs, input \in ContractorInputs : updateContractor(id, input)
    \/ \E x \in ContractorRefs :
          insertId.contractHistory <= MaxRatings /\ createContractHistory(x, MaxAmount, "")
    \/ \E x \in ContractorRefs :
          /\ insertId.performanceRatings <= MaxRatings
          /\ createPerformanceRating(x, NULL, CHOOSE d \in RatingDataBrief : d.qualityRating # NULL)
    \/ ProcurementRows < MaxRows /\ createAnnualBudget(LedgerYear, MaxTotal)
    \/ \E id \in 1..MaxRows : updateAnnualBudget(id, [totalBudget |-> <<1>>])
    \/ \E id \in 1..MaxRows : deleteAnnualBudget(id)
    \/ ProcurementRows < MaxRows /\ createPOW(1, LedgerYear, MaxCost)
    \/ \E id \in 1..MaxRows : updatePOW(id, [estimatedCost |-> <<0>>])
    \/ \E id \in 1..MaxRows : deletePOW(id)
    \/ ProcurementRows < MaxRows /\ createBidding(1)
    \/ \E id \in 1..MaxRows : updateBidding(id, [status |-> <<"Awarded">>])
    \/ \E id \in 1..MaxRows : deleteBidding(id)

SpecFrame == Init /\ [][NextFrame]_vars

\* Budget references that may name no budget: any id up to one past the last.
DanglingRefs == 1..(MaxBudgets + 1)

\* POWs are created and deleted under budget ids that may not resolve.
NextDangling ==
    \/ \E t \in Totals :
          insertId.annualBudgets <= MaxBudgets /\ createAnnualBudget(LedgerYear, t)
    \/ \E id \in 1..MaxBudgets : deleteAnnualBudget(id)
    \/ \E b \in DanglingRefs, c \in Costs :
          insertId.programOfWorks <= MaxPOWs /\ createPOW(b, LedgerYear, c)
    \/ \E id \in 1..MaxPOWs : deletePOW(id)

SpecDangling == Init /\ [][NextDangling]_vars

\* Overlapping creations: each createPOW / createBidding call reads its number
\* in one step and inserts in a later one, other calls running in between.
NextRace ==
    \/ \E y \in FiscalYears :
          Len(inflight) < MaxCalls /\ createPOWGenerate(NULL, y, 0)
    \/ \E c \in 1..MaxCalls : createPOWInsert(c)
    \/ Len(inflight) < MaxCalls /\ createBiddingGenerate(NULL)
    \/ \E c \in 1..MaxCalls : createBiddingInsert(c)

SpecRace == Init /\ [][NextRace]_vars

\* The contractor created last and, optionally, the contract recorded last.
LatestContractor == insertId.contractors - 1
LatestContractRefs == {NULL, insertId.contractHistory - 1}

\* Ratings of the latest contractor's contracts are created, re-scored and deleted.
NextRevision ==
    \/ insertId.contractors <= MaxContractors /\ createContractor
    \/ /\ insertId.contractHistory <= MaxContractors
       /\ exists(contractors, LatestContractor)
       /\ createContractHistory(LatestContractor, NULL, "")
    \/ \E h \in LatestContractRefs, data \in RatingDataBrief :
          /\ insertId.performanceRatings <= MaxRatings
          /\ exists(contractors, LatestContractor)
          /\ createPerformanceRating(LatestContractor, h, data)
    \/ \E id \in 1..MaxRatings, data \in RatingPatches : updatePerformanceRating(id, data)
    \/ \E id \in 1..MaxRatings : deletePerformanceRating(id)

SpecRevision == Init /\ [][NextRevision]_vars

\* POWs are created and deleted, and nothing else, over budgets created
\* beforehand; a POW may name no budget, or one that was never created.
NextAllocation ==
    \/ \E t \in Totals :
          /\ insertId.annualBudgets <= MaxBudgets
          /\ insertId.programOfWorks = 1
          /\ createAnnualBudget(LedgerYear, t)
    \/ \E b \in BudgetRefs, y \in FiscalYears, c \in Costs :
          insertId.programOfWorks <= MaxPOWs /\ createPOW(b, y, c)
    \/ \E id \in 1..MaxPOWs : deletePOW(id)

SpecAllocation == Init /\ [][NextAllocation]_vars

\* Overlapping createPOW calls over budgets created beforehand, each call
\* taken statement by statement.
NextOverlap ==
    \/ \E t \in Totals :
          /\ insertId.annualBudgets <= MaxBudgets
          /\ Len(inflight) = 0
          /\ createAnnualBudget(LedgerYear, t)
    \/ \E b \in 1..MaxBudgets, c \in Costs :
          Len(inflight) < MaxCalls /\ createPOWGenerate(b, LedgerYear, c)
    \/ \E c \in 1..MaxCalls : createPOWInsertRow(c)
    \/ \E c \in 1..MaxCalls : createPOWReadBudget(c)
    \/ \E c \in 1..MaxCalls : createPOWWriteBudget(c)

SpecOverlap == Init /\ [][NextOverlap]_vars

\* Overlapping contract-history calls for contractors created beforehand,
\* each call taken statement by statement.
NextQuiescence ==
    \/ insertId.contractors <= MaxContractors /\ Len(inflight) = 0 /\ createContractor
    \/ \E x \in DOMAIN contractors, a \in Amounts :
          /\ Len(inflight) < MaxCalls
          /\ insertId.contractHistory <= MaxContracts
          /\ createContractHistoryInsert(x, a, "")
    \/ \E id \in 1..MaxContracts :
          /\ Len(inflight) < MaxCalls
          /\ updateContractHistoryWrite(id, [contractAmount |-> <<MaxAmount>>])
    \/ \E c \in 1..MaxCalls : updateContractHistoryReread(c)
    \/ \E id \in 1..MaxContracts :
          Len(inflight) < MaxCalls /\ deleteContractHistoryRead(id)
    \/ \E c \in 1..MaxCalls : deleteContractHistoryDelete(c)
    \/ \E c \in 1..MaxCalls : updateContractorStatsSelect(c)
    \/ \E c \in 1..MaxCalls : updateContractorStatsUpdate(c)

SpecQuiescence == Init /\ [][NextQuiescence]_vars

\* Biddings are created, moved and deleted, and nothing else, over POWs
\* created beforehand; several biddings may name one POW.
NextBiddingOnly ==
    \/ /\ insertId.programOfWorks <= MaxLinkedPOWs
       /\ insertId.biddings = 1
       /\ createPOW(NULL, LedgerYear, 0)
    \/ \E p \in POWRefs : insertId.biddings <= MaxBiddings /\ createBidding(p)
    \/ \E id \in 1..MaxBiddings, data \in BiddingPatches : updateBidding(id, data)
    \/ \E id \in 1..MaxBiddings : deleteBidding(id)

SpecBiddingOnly == Init /\ [][NextBiddingOnly]_vars

\* The bidding lifecycle with calls that stop between their statements.
NextInterrupted ==
    \/ insertId.programOfWorks <= MaxLinkedPOWs /\ createPOW(NULL, LedgerYear, 0)
    \/ \E p \in 1..MaxLinkedPOWs : insertId.biddings <= MaxBiddings /\ createBidding(p)
    \/ \E id \in 1..MaxBiddings : updateBidding(id, [status |-> <<"Awarded">>])
    \/ \E id \in 1..MaxBiddings : deleteBidding(id)
    \/ \E p \in 1..MaxLinkedPOWs :
          insertId.biddings <= MaxBiddings /\ createBiddingInterrupted(p)
    \/ \E id \in 1..MaxBiddings : updateBiddingInterrupted(id, [status |-> <<"Awarded">>])
    \/ \E id \in 1..MaxBiddings : deleteBiddingInterrupted(id)

SpecInterrupted == Init /\ [][NextInterrupted]_vars

\* Contractors of the two-path runs.
MaxOwners == 2

\* Both paths to a contractor's overallRating: contracts of existing
\* contractors are recorded, rated by hand and deleted; ratings of existing
\* contractors are created over any recorded contract or none, re-scored and deleted.
NextPaths ==
    \/ insertId.contractors <= MaxOwners /\ createContractor
    \/ \E x \in DOMAIN contractors :
          insertId.contractHistory <= MaxContracts /\ createContractHistory(x, NULL, "")
    \/ \E id \in DOMAIN contractHistory :
          updateContractHistory(id, [performanceRating |-> <<300>>])
    \/ \E id \in DOMAIN contractHistory : deleteContractHistory(id)
    \/ \E x \in DOMAIN contractors, h \in {NULL} \cup DOMAIN contractHistory,
           data \in RatingDataBrief :
          insertId.performanceRatings <= MaxRatings /\ createPerformanceRating(x, h, data)
    \/ \E id \in DOMAIN performanceRatings :
          updatePerformanceRating(id, [qualityRating |-> <<300>>])
    \/ \E id \in DOMAIN performanceRatings : deletePerformanceRating(id)

SpecPaths == Init /\ [][NextPaths]_vars

----------------------------------------------------------------------------
(* Budget ledger: claims *)

Balanced(b) == b.remainingAmount = b.totalBudget - b.allocatedAmount

\* C1: every budget created by createAnnualBudget keeps
\* remainingAmount = totalBudget - allocatedAmount through every sequence of
\* createPOW and deletePOW (and re-estimations by updatePOW).
C1_BudgetInvariant ==
    \A b \in DOMAIN annualBudgets : Balanced(annualBudgets[b])

\* C1 witness: a deletePOW has deallocated from a budget that other POWs still
\* draw on.
C1_Witness ==
    /\ last.op = "deletePOW"
    /\ last.budgetId \in DOMAIN annualBudgets
    /\ annualBudgets[last.budgetId].allocatedAmount > 0
    /\ annualBudgets[last.budgetId].remainingAmount < annualBudgets[last.budgetId].totalBudget

\* C2 as claimed: createPOW on budget B immediately followed by deletePOW of
\* that POW leaves B.allocatedAmount and B.remainingAmount at their values
\* from before the creation.
C2_RoundTrip ==
    (last.op = "deletePOW" /\ last.roundTrip) =>
        /\ annualBudgets[last.budgetId].allocatedAmount = last.preAllocated
        /\ annualBudgets[last.budgetId].remainingAmount = last.preRemaining

\* C3 as claimed: remainingAmount = totalBudget - allocatedAmount after every
\* operation of the budget interface, budgets.update included.
C3_BalancedAfterEveryOperation ==
    \A b \in DOMAIN annualBudgets : Balanced(annualBudgets[b])

\* C10 as claimed: the k-th POW created for fiscal year Y is numbered
\* POW-Y-<k padded to 3 digits>.
C10_KthCreatedNumber ==
    last.op = "createPOW" =>
        LET pow == programOfWorks[last.id]
        IN pow.powNumber = "POW-" \o ToString(pow.fiscalYear) \o "-"
                              \o padStart(ToString(powCreated[pow.fiscalYear]), 3)

----------------------------------------------------------------------------
(* Bidding lifecycle: claims *)

\* C4: after createBidding with powId = P, an existing POW, P.status is
\* "For Bidding" and P.biddingId is the new bidding's id, whatever P's status
\* was; the new bidding has status "Pre-Procurement".
C4_CreateBiddingLinksPOW ==
    (last.op = "createBidding" /\ exists(programOfWorks, last.powId)) =>
        /\ programOfWorks[last.powId].status = "For Bidding"
        /\ programOfWorks[last.powId].biddingId = last.id
        /\ biddings[last.id].status = "Pre-Procurement"

\* C4 witness: a bidding was created for a POW that had been cancelled.
C4_Witness ==
    /\ last.op = "createBidding"
    /\ exists(programOfWorks, last.powId)
    /\ last.preStatus = "Cancelled"

\* C5: after updateBidding with status "Awarded" on a bidding whose powId = P,
\* P.status is "Awarded".
C5_AwardPropagates ==
    (last.op = "updateBidding" /\ last.data.status = <<"Awarded">>
        /\ exists(programOfWorks, last.powId)) =>
        programOfWorks[last.powId].status = "Awarded"

\* C5 witness: a bidding of an existing POW has just been awarded.
C5_Witness ==
    /\ last.op = "updateBidding"
    /\ last.data.status = <<"Awarded">>
    /\ exists(programOfWorks, last.powId)
    /\ biddings[last.id].status = "Awarded"

\* C6 as claimed: after deleteBidding of a bidding whose powId = P, P.status is
\* "Approved", P.biddingId is null and the bidding row is gone.
C6_DeleteBiddingUnlinksPOW ==
    (last.op = "deleteBidding" /\ exists(programOfWorks, last.powId)) =>
        /\ programOfWorks[last.powId].status = "Approved"
        /\ programOfWorks[last.powId].biddingId = NULL
        /\ ~exists(biddings, last.id)

----------------------------------------------------------------------------
(* Contractor aggregates: claims *)

\* The contractors whose history rows were all created while they existed, or
\* whose aggregates have been recomputed since.
Tracked == DOMAIN contractors \ orphaned

\* The sum of contractAmount over a set of history rows, null counted as 0.
RECURSIVE AmountTotal(_)
AmountTotal(rows) ==
    IF rows = {} THEN 0
    ELSE LET i == CHOOSE r \in rows : TRUE
         IN (IF contractHistory[i].contractAmount = NULL THEN 0
             ELSE contractHistory[i].contractAmount) + AmountTotal(rows \ {i})

----------------------------------------------------------------------------
(* Performance ratings: claims *)

\* The sub-scores of a row that are present and strictly greater than 0.
Qualifying(row) == {k \in 1..5 : subScores(row)[k] # NULL /\ subScores(row)[k] > 0}

RECURSIVE ScoreTotal(_, _)
ScoreTotal(row, ks) ==
    IF ks = {} THEN 0
    ELSE LET k == CHOOSE j \in ks : TRUE
         IN subScores(row)[k] + ScoreTotal(row, ks \ {k})

\* A value v (hundredths) is the mean total / n rounded to 2 decimals: no
\* other hundredth is nearer to the mean.
IsRoundedMean(v, total, n) ==
    /\ 2 * (v * n - total) <= n
    /\ 2 * (total - v * n) <= n

\* C9: createPerformanceRating stores as overallRating the mean, rounded to 2
\* decimals, of the sub-scores that are present and > 0, and 0 when there is none.
C9_OverallRatingIsMeanOfPositive ==
    last.op = "createPerformanceRating" =>
        LET row == performanceRatings[last.id]
            ks == Qualifying(row)
        IN IF ks = {} THEN row.overallRating = 0
           ELSE IsRoundedMean(row.overallRating, ScoreTotal(row, ks), Cardinality(ks))

\* C9 witness: the sub-scores {0, 4, absent, 5, absent} were stored with the
\* overall rating 4.50.
C9_Witness ==
    /\ last.op = "createPerformanceRating"
    /\ subScores(performanceRatings[last.id]) = <<0, 400, NULL, 500, NULL>>
    /\ performanceRatings[last.id].overallRating = 450

----------------------------------------------------------------------------
(* Availability: claims *)

\* C11: a create, update or delete of a budget, POW, bidding, contract-history
\* row or rating that starts while getDb yields no connection fails with the
\* error "Database not available" and leaves every table unchanged.
C11_UnavailableMutationFails ==
    [][(db = NULL /\ last'.op # "startServer") =>
            /\ last'.op = "throw"
            /\ last'.message = "Database not available"
            /\ tables' = tables]_vars

\* C11 witness: a deletion was refused for want of a connection while the
\* tables hold rows.
C11_Witness ==
    /\ db = NULL
    /\ last.op = "throw"
    /\ last.of = "deletePOW"
    /\ programOfWorks # EmptyTable

----------------------------------------------------------------------------
(* Contractor aggregates as a frame: claims *)

\* The five aggregate fields of a contractor row.
Aggregates(c) ==
    <<c.totalContracts, c.totalContractValue, c.completedContracts,
      c.ongoingContracts, c.overallRating>>

\* The operations that end with a recomputation of the aggregates.
EngineOps ==
    {"createContractHistory", "updateContractHistory", "deleteContractHistory",
     "createPerformanceRating", "updatePerformanceRating", "deletePerformanceRating"}

\* C12: a contractor's aggregate fields change only in a step of a
\* contract-history or performance-rating mutation; createContractor,
\* contractors.update (whatever its input carries) and the budget, POW and
\* bidding operations leave them as they are.
C12_AggregatesWrittenByEngineOnly ==
    [][\A x \in DOMAIN contractors \cap DOMAIN contractors' :
          Aggregates(contractors'[x]) # Aggregates(contractors[x])
              => last'.op \in EngineOps]_vars

\* C12 witness: contractors.update was called with values for aggregate
\* columns on a contractor whose aggregates hold other values.
C12_Witness ==
    /\ last.op = "updateContractor"
    /\ "totalContracts" \in DOMAIN last.input
    /\ contractors[last.id].status = "Suspended"
    /\ contractors[last.id].totalContracts = 1
    /\ contractors[last.id].overallRating = 450

----------------------------------------------------------------------------
(* Deallocation: claims *)

\* C13: through every sequence of createPOW, updatePOW (estimatedCost changes
\* included) and deletePOW with non-negative costs, every budget has
\* allocatedAmount >= 0.
C13_AllocatedNeverNegative ==
    \A b \in DOMAIN annualBudgets : annualBudgets[b].allocatedAmount >= 0

\* C13 witness: deletePOW deallocated more than was allocated and left 0.
C13_Witness ==
    /\ last.op = "deletePOW"
    /\ last.clamped
    /\ annualBudgets[last.budgetId].allocatedAmount = 0

\* C14: updatePOW leaves every annual budget row as it was, also when the
\* patch changes the estimatedCost of a POW linked to a budget.
C14_UpdatePOWLeavesBudgets ==
    [][last'.op = "updatePOW" => annualBudgets' = annualBudgets]_vars

\* C14 witness: updatePOW changed the estimatedCost of a POW just created on
\* a budget.
C14_Witness ==
    /\ last.op = "updatePOW"
    /\ last.created
    /\ programOfWorks[last.id].estimatedCost # last.preCost
    /\ exists(annualBudgets, programOfWorks[last.id].budgetId)

C16_UnresolvedBudgetIsSkipped ==
    [][(last'.op \in {"createPOW", "deletePOW"} /\ last'.unresolved) =>
            /\ annualBudgets' = annualBudgets
            /\ last'.op = "createPOW" =>
                    exists(programOfWorks', last'.id) /\ ~exists(programOfWorks, last'.id)
            /\ last'.op = "deletePOW" =>
                    ~exists(programOfWorks', last'.id) /\ exists(programOfWorks, last'.id)]_vars

\* C16 witness: a POW whose budgetId names no budget was deleted while another
\* budget holds allocations.
C16_Witness ==
    /\ last.op = "deletePOW"
    /\ last.unresolved
    /\ \E b \in DOMAIN annualBudgets : annualBudgets[b].allocatedAmount > 0

----------------------------------------------------------------------------
(* Numbering: claims *)

\* C17 as claimed: through every sequence of createPOW and deletePOW, no two
\* existing POWs of one fiscal year have the same powNumber.
C17_NumberUniquePerYear ==
    \A i, j \in DOMAIN programOfWorks :
        (i # j /\ programOfWorks[i].fiscalYear = programOfWorks[j].fiscalYear)
            => programOfWorks[i].powNumber # programOfWorks[j].powNumber

\* The number a completed call's row holds.
NumberOfRow(call) ==
    IF call.op = "createPOW" THEN programOfWorks[call.id].powNumber
    ELSE biddings[call.id].biddingNumber

\* Two completed calls of one kind (and fiscal year) that both read their count
\* before either inserted.
Raced(a, b) ==
    /\ a # b
    /\ inflight[a].pc = "done" /\ inflight[b].pc = "done"
    /\ inflight[a].op = inflight[b].op
    /\ inflight[a].fiscalYear = inflight[b].fiscalYear
    /\ inflight[a].readAt = inflight[b].readAt

\* C18: two createPOW calls for one fiscal year (two createBidding calls)
\* whose count reads both precede either insert store the same number.
C18_RacingCreatorsShareNumber ==
    \A a, b \in DOMAIN inflight :
        Raced(a, b) => NumberOfRow(inflight[a]) = NumberOfRow(inflight[b])

\* C18 witness: two POWs of one fiscal year hold one powNumber after two
\* overlapping createPOW calls.
C18_Witness ==
    \E a, b \in DOMAIN inflight :
        /\ Raced(a, b)
        /\ inflight[a].op = "createPOW"
        /\ programOfWorks[inflight[a].id].powNumber = programOfWorks[inflight[b].id].powNumber
        /\ programOfWorks[inflight[a].id].fiscalYear = programOfWorks[inflight[b].id].fiscalYear

----------------------------------------------------------------------------
(* Rating updates: claims *)

\* The value of sub-score k that an update derives from: the patch's when the
\* patch gives one, the stored one otherwise.
MergedScore(stored, data, k) ==
    LET f == scoreFields[k]
    IN IF f \in DOMAIN data /\ data[f] # <<>> THEN data[f][1] ELSE stored[f]

RECURSIVE MergedTotal(_, _, _)
MergedTotal(stored, data, ks) ==
    IF ks = {} THEN 0
    ELSE LET k == CHOOSE j \in ks : TRUE
         IN MergedScore(stored, data, k) + MergedTotal(stored, data, ks \ {k})

\* C19: updatePerformanceRating stores as overallRating the mean, rounded to 2
\* decimals, of the merged sub-scores (patch over stored row) that are > 0,
\* and 0 when there is none.
C19_UpdateDerivesFromMergedScores ==
    last.op = "updatePerformanceRating" =>
        LET ks == {k \in 1..5 : MergedScore(last.stored, last.data, k) # NULL
                                 /\ MergedScore(last.stored, last.data, k) > 0}
            overall == performanceRatings[last.id].overallRating
        IN IF ks = {} THEN overall = 0
           ELSE IsRoundedMean(overall, MergedTotal(last.stored, last.data, ks),
                              Cardinality(ks))

\* C19 witness: a patch re-scored quality from 5 to 0 on a row whose stored
\* timeliness is 4; the overall rating became 4.00.
C19_Witness ==
    /\ last.op = "updatePerformanceRating"
    /\ last.data = [qualityRating |-> <<0>>]
    /\ last.stored.qualityRating = 500
    /\ last.stored.timelinessRating = 400
    /\ performanceRatings[last.id].overallRating = 400

\* C20 as claimed: after updatePerformanceRating on a rating R of contractor
\* X, X.overallRating is the average of overallRating over X's ratings and,
\* when R.contractHistoryId is set, that history row's performanceRating is
\* R's newly derived overallRating.
C20_UpdatePropagatesTwice ==
    last.op = "updatePerformanceRating" =>
        LET R == performanceRatings[last.id]
            X == last.contractorId
            rows == {i \in DOMAIN performanceRatings : performanceRatings[i].contractorId = X}
        IN /\ exists(contractors, X) =>
                IsRoundedMean(contractors[X].overallRating,
                              sqlSum(performanceRatings, rows, "overallRating"),
                              Cardinality(rows))
           /\ (R.contractHistoryId # NULL /\ exists(contractHistory, R.contractHistoryId)) =>
                contractHistory[R.contractHistoryId].performanceRating = R.overallRating

----------------------------------------------------------------------------
(* The two paths to overallRating: claims *)

\* The average of a column over a set of rows, as a predicate on the stored
\* value: 0 when no row carries one, the rounded mean otherwise.
IsAverage(v, table, rows, column) ==
    LET given == {i \in rows : table[i][column] # NULL}
    IN IF given = {} THEN v = 0
       ELSE IsRoundedMean(v, sqlSum(table, given, column), Cardinality(given))

\* C23 as claimed: when the mutation that touched contractor X last was one
\* of contract history, X.overallRating is the average of the non-null
\* performanceRating of X's history rows; when it was one of performance
\* ratings, it is the average of overallRating of X's ratings; 0 when none.
C23_LastMutationWins ==
    \A X \in DOMAIN contractors \cap DOMAIN touched :
        IF touched[X] = "history"
        THEN IsAverage(contractors[X].overallRating, contractHistory,
                       rowsOf(contractHistory, X), "performanceRating")
        ELSE IsAverage(contractors[X].overallRating, performanceRatings,
                       rowsOf(performanceRatings, X), "overallRating")

\* C26 as claimed: createContractHistory for contractor X immediately
\* followed by deleteContractHistory of that row returns X's five aggregates
\* to their values before the creation.
C26_DeleteReversesCreate ==
    (/\ last.op = "deleteContractHistory"
     /\ Len(last.pre) > 0
     /\ exists(contractors, last.contractorId)) =>
        Aggregates(contractors[last.contractorId]) = Aggregates(last.pre[1])

----------------------------------------------------------------------------
(* Calls that stop between their statements: claims *)

\* C24: when createBidding, updateBidding to Awarded or deleteBidding stops
\* between its statements, the statements that ran stay committed: the new
\* bidding references a POW that is not linked to it, the bidding is Awarded
\* over a POW whose status was not moved, or the POW is back to Approved
\* while the bidding still exists.
C24_InterruptedCallStaysCommitted ==
    last.op = "interrupted" =>
        LET P == last.powId
            B == last.id
        IN /\ exists(biddings, B)
           /\ biddings[B].powId = P
           /\ last.of = "createBidding" =>
                (exists(programOfWorks, P) => programOfWorks[P].biddingId # B)
           /\ last.of = "updateBidding" =>
                /\ biddings[B].status = "Awarded"
                /\ exists(programOfWorks, P) => programOfWorks[P].status = last.preStatus
           /\ last.of = "deleteBidding" =>
                (exists(programOfWorks, P) => programOfWorks[P].status = "Approved")

\* C24 witness: the three disagreements in one state.  Bidding A references
\* POW P, which is neither For Bidding nor linked to A; bidding B is Awarded
\* while P is not; P is back to Approved while B, whose deletion stopped,
\* still exists.
C24_Witness ==
    /\ last.op = "interrupted"
    /\ last.of = "deleteBidding"
    /\ \E P \in DOMAIN programOfWorks : \E A, B \in DOMAIN biddings :
          /\ A # B
          /\ B = last.id
          /\ biddings[A].powId = P
          /\ biddings[B].powId = P
          /\ biddings[A].status = "Pre-Procurement"
          /\ biddings[B].status = "Awarded"
          /\ programOfWorks[P].status = "Approved"
          /\ programOfWorks[P].biddingId = B

----------------------------------------------------------------------------
(* POW status: claims *)

\* The position of a status on the path Draft -> For Review -> Approved ->
\* For Bidding -> Awarded; 0 for any other status.
Rank(status) ==
    CASE status = "Draft" -> 1
      [] status = "For Review" -> 2
      [] status = "Approved" -> 3
      [] status = "For Bidding" -> 4
      [] status = "Awarded" -> 5
      [] OTHER -> 0

\* C25 as claimed: a POW starts in Draft, and every later change of its
\* status is a step forward along Draft -> For Review -> Approved ->
\* For Bidding -> Awarded or a move to Cancelled from a non-terminal status;
\* no step moves a POW out of Awarded or Cancelled.
C25_StatusFollowsStateMachine ==
    [][/\ \A p \in DOMAIN programOfWorks' \ DOMAIN programOfWorks :
            programOfWorks'[p].status = "Draft"
       /\ \A p \in DOMAIN programOfWorks \cap DOMAIN programOfWorks' :
            LET from == programOfWorks[p].status
                to == programOfWorks'[p].status
            IN from # to =>
                /\ from \notin {"Awarded", "Cancelled"}
                /\ to = "Cancelled" \/ (Rank(from) > 0 /\ Rank(to) > Rank(from))]_vars

----------------------------------------------------------------------------
(* Allocation under createPOW and deletePOW alone: claims *)

\* The POWs that name budget B.
POWsOf(B) == {p \in DOMAIN programOfWorks : programOfWorks[p].budgetId = B}

\* C27: under createPOW and deletePOW alone, over budgets that start with
\* nothing allocated, each budget's allocatedAmount is the sum of
\* estimatedCost over the existing POWs that name it.
C27_AllocatedIsSumOfCosts ==
    \A B \in DOMAIN annualBudgets :
        annualBudgets[B].allocatedAmount =
            0 + sqlSum(programOfWorks, POWsOf(B), "estimatedCost")

\* C27 witness: a second POW was created under a budget that had 1 allocated
\* and was then deleted; the budget carries 1 again, the cost of the POW
\* that remains.
C27_Witness ==
    /\ last.op = "deletePOW"
    /\ last.roundTrip
    /\ last.budgetId \in DOMAIN annualBudgets
    /\ last.preAllocated = 1
    /\ annualBudgets[last.budgetId].allocatedAmount = 1
    /\ Cardinality(POWsOf(last.budgetId)) = 1

----------------------------------------------------------------------------
(* Overlapping createPOW calls on one budget: claims *)

\* The calls that named budget B.
CallsOn(B) == {c \in DOMAIN inflight : inflight[c].ref = B}

\* C28 as claimed: once the overlapping createPOW calls that name budget B
\* have all completed, whatever the order of their reads and writes,
\* B.allocatedAmount has grown by the sum of their costs and
\* B.remainingAmount has shrunk by it.
C28_NoAllocationLost ==
    \A B \in DOMAIN annualBudgets :
        (\A c \in DOMAIN inflight : inflight[c].pc = "done") =>
            LET total == sqlSum(inflight, CallsOn(B), "estimatedCost")
            IN /\ annualBudgets[B].allocatedAmount = 0 + total
               /\ annualBudgets[B].remainingAmount = annualBudgets[B].totalBudget - total

----------------------------------------------------------------------------
(* Overlapping contract-history calls on one contractor: claims *)

\* C29 as claimed: once the overlapping createContractHistory,
\* updateContractHistory and deleteContractHistory calls have all completed,
\* whatever the order of their statements, each contractor's totalContracts
\* and totalContractValue are the count and the sum over its current
\* contract-history rows.
C29_AggregatesCorrectAtQuiescence ==
    (\A c \in DOMAIN inflight : inflight[c].pc = "done") =>
        \A X \in DOMAIN contractors :
            LET rows == rowsOf(contractHistory, X)
            IN /\ contractors[X].totalContracts = Cardinality(rows)
               /\ contractors[X].totalContractValue = AmountTotal(rows)

----------------------------------------------------------------------------
(* Biddings over one POW: claims *)

\* C30 as claimed: under createBidding, updateBidding and deleteBidding
\* alone, whenever an existing bidding names POW P, P.status is For Bidding
\* or Awarded and P.biddingId is the id of an existing bidding that names P.
C30_ReferencedPOWIsLinked ==
    \A b \in DOMAIN biddings :
        LET P == biddings[b].powId
        IN (P # NULL /\ exists(programOfWorks, P)) =>
            /\ programOfWorks[P].status \in {"For Bidding", "Awarded"}
            /\ exists(biddings, programOfWorks[P].biddingId)
            /\ biddings[programOfWorks[P].biddingId].powId = P

====
